---------------------------- MODULE Spec2Model ----------------------------
(***************************************************************************)
(* A model of the OBJ mesh loader load_obj (src/src/main.cpp) and of the   *)
(* orbit camera (src/src/orbitcamera.cpp).                                 *)
(*                                                                         *)
(* Text is modelled as what it is: a line is a sequence of characters      *)
(* (one-character strings), indexed from 0 as in C++ through At.  The      *)
(* loader's three vectors verts, norms and out are flat sequences of       *)
(* scalars, as in the code.  A float is modelled by an integer: the        *)
(* model's input text holds integer-valued numbers only (no '.', no        *)
(* exponent).                                                              *)
(*                                                                         *)
(* One GetLine step is one iteration of the while (std::getline(...))      *)
(* loop: the file's next line is chosen by the environment, and the whole  *)
(* loop body is applied to it.                                             *)
(*                                                                         *)
(* The camera's floats are fixed-point numbers in thousandths (radians,    *)
(* pixels and lengths alike), with the largest finite value FloatMax and   *)
(* the values +inf, -inf and NaN beyond it; rounding below a thousandth is *)
(* left out.  Spec is the loader, CamSpec the camera.                      *)
(***************************************************************************)
EXTENDS Integers, Sequences, FiniteSets

\* -------------------------------------------------------------------------
\* Bounds of the model
\* -------------------------------------------------------------------------

\* at most MaxVerts well-formed `v` lines in an input file
MaxVerts == 4

\* at most MaxNorms well-formed `vn` lines in an input file
MaxNorms == 2

\* `f` lines are read only while fewer than MaxTris triangles were emitted
MaxTris == 1

\* the largest finite float, in thousandths
FloatMax == 400000

\* orbitcamera_rotate is called only while |yaw| stays within MaxYaw
\* (thousandths of a radian)
MaxYaw == 2000

\* -------------------------------------------------------------------------
\* C++ primitives
\* -------------------------------------------------------------------------

\* std::string::npos, for the 0-based positions Find returns
NPOS == -1

INT_MAX == 2147483647

\* t[i] with the 0-based index of C++
At(s, i) == s[i + 1]

\* std::string::size
Size(s) == Len(s)

\* t.substr(pos): the characters from 0-based pos to the end
SubstrFrom(s, pos) == SubSeq(s, pos + 1, Len(s))

\* t.substr(0, n)
SubstrTo(s, n) == SubSeq(s, 1, n)

\* std::isspace on the model's characters: blank and tab
IsSpace(c) == c \in {" ", "\t"}

IsDigit(c) == c \in {"0", "1", "2", "3", "4", "5", "6", "7", "8", "9"}

DigitVal(c) ==
    CASE c = "0" -> 0 [] c = "1" -> 1 [] c = "2" -> 2 [] c = "3" -> 3
      [] c = "4" -> 4 [] c = "5" -> 5 [] c = "6" -> 6 [] c = "7" -> 7
      [] c = "8" -> 8 [] c = "9" -> 9

\* t.find(c, from): the first 0-based position >= from holding c, or NPOS
RECURSIVE Find(_, _, _)
Find(t, c, from) ==
    IF from >= Size(t) THEN NPOS
    ELSE IF At(t, from) = c THEN from
    ELSE Find(t, c, from + 1)

\* the first 0-based position >= i that holds no whitespace (or Size(s))
RECURSIVE SkipSpace(_, _)
SkipSpace(s, i) ==
    IF i < Size(s) /\ IsSpace(At(s, i)) THEN SkipSpace(s, i + 1) ELSE i

\* the first 0-based position >= i that holds no digit (or Size(s))
RECURSIVE DigitsEnd(_, _)
DigitsEnd(s, i) ==
    IF i < Size(s) /\ IsDigit(At(s, i)) THEN DigitsEnd(s, i + 1) ELSE i

\* The value of the decimal digits s[i .. j-1] with the sign given (TRUE:
\* negative), accumulated from acc as strtol does, within the range of int;
\* over is TRUE when the value leaves INT_MIN..INT_MAX.
RECURSIVE DigitsVal(_, _, _, _, _)
DigitsVal(s, i, j, acc, neg) ==
    IF i >= j THEN [over |-> FALSE, val |-> acc]
    ELSE LET d    == DigitVal(At(s, i))
             lim  == INT_MAX \div 10
             last == (INT_MAX % 10) + (IF neg THEN 1 ELSE 0)
             mag  == IF neg THEN -acc ELSE acc
         IN  IF mag > lim \/ (mag = lim /\ d > last)
             THEN [over |-> TRUE, val |-> 0]
             ELSE DigitsVal(s, i + 1, j,
                            IF neg THEN 10 * acc - d ELSE 10 * acc + d, neg)

\* [sign] digits at 0-based position i of s, as strtol and num_get read a
\* number: the longest such prefix.  ok is FALSE when there is no digit.
ScanInt(s, i) ==
    LET neg  == i < Size(s) /\ At(s, i) = "-"
        sgn  == i < Size(s) /\ At(s, i) \in {"-", "+"}
        d0   == IF sgn THEN i + 1 ELSE i
        d1   == DigitsEnd(s, d0)
        v    == DigitsVal(s, d0, d1, 0, neg)
    IN  [ok |-> d1 > d0, over |-> v.over, val |-> v.val, next |-> d1]

\* std::stoi(s): skips leading whitespace, reads [sign] digits, ignores what
\* follows; throws std::invalid_argument when no digit was read and
\* std::out_of_range when the value does not fit an int.
Stoi(s) ==
    LET r == ScanInt(s, SkipSpace(s, 0))
    IN  IF ~r.ok \/ r.over THEN [threw |-> TRUE, val |-> 0]
        ELSE [threw |-> FALSE, val |-> r.val]

\* iss >> tok for a std::string, from 0-based position i: skips whitespace,
\* then takes the characters up to the next whitespace.  ok is FALSE at the
\* end of the stream.
RECURSIVE WordEnd(_, _)
WordEnd(s, i) ==
    IF i < Size(s) /\ ~IsSpace(At(s, i)) THEN WordEnd(s, i + 1) ELSE i

ReadWord(s, i) ==
    LET b == SkipSpace(s, i)
        e == WordEnd(s, b)
    IN  [ok |-> e > b, word |-> SubSeq(s, b + 1, e), next |-> e]

\* iss >> x for a float, from 0-based position i: skips whitespace, then
\* reads a number; ok is FALSE (the stream fails) when none is there.  The
\* numbers of the model's v and vn lines are small integers.
ReadFloat(s, i) == ScanInt(s, SkipSpace(s, i))

\* iss >> x >> y >> z: three floats, or failure at the first that fails
ReadFloat3(s, i) ==
    LET x == ReadFloat(s, i)
        y == ReadFloat(s, x.next)
        z == ReadFloat(s, y.next)
    IN  IF x.ok /\ y.ok /\ z.ok
        THEN [ok |-> TRUE, xyz |-> <<x.val, y.val, z.val>>]
        ELSE [ok |-> FALSE, xyz |-> <<>>]

\* while (iss >> tok) face.push_back(tok)
RECURSIVE ReadWords(_, _)
ReadWords(s, i) ==
    LET w == ReadWord(s, i)
    IN  IF w.ok THEN <<w.word>> \o ReadWords(s, w.next) ELSE <<>>


\* -------------------------------------------------------------------------
\* load_obj: index resolution and corner tokens
\* -------------------------------------------------------------------------

\* an index resolution that counts a negative index from one past the end
fix_obj_indexPastEnd(idx, count) ==
    IF idx > 0 THEN idx - 1
    ELSE IF idx < 0 THEN count + idx + 1
    ELSE -1

\* fix_obj_index: OBJ index (1..count, or -1..-count from the end) to a
\* 0-based index; -1 for zero.  The positive branch does not look at count.
fix_obj_index(idx, count) ==
    IF idx > 0 THEN idx - 1
    ELSE IF idx < 0 THEN count + idx
    ELSE -1

\* a token reader that takes the field after a single slash for the normal
RawIndicesSlashIsNormal(t) ==
    LET s1 == Find(t, "/", 0)
    IN  IF s1 = NPOS
        THEN LET a == Stoi(t)
             IN  [threw |-> a.threw, vi_raw |-> a.val, ni_raw |-> 0]
        ELSE LET a  == Stoi(SubstrTo(t, s1))
                 s2 == Find(t, "/", s1 + 1)
                 vn_part == SubstrFrom(t, (IF s2 # NPOS THEN s2 ELSE s1) + 1)
                 b == Stoi(vn_part)
             IN  IF a.threw THEN [threw |-> TRUE, vi_raw |-> 0, ni_raw |-> 0]
                 ELSE IF vn_part # <<>>
                 THEN [threw |-> b.threw, vi_raw |-> a.val, ni_raw |-> b.val]
                 ELSE [threw |-> FALSE, vi_raw |-> a.val, ni_raw |-> 0]

\* parse_tok, first half: the raw integers of a corner token v, v/vt, v//vn
\* or v/vt/vn.  threw is TRUE when a std::stoi call throws; the exception
\* leaves parse_tok and load_obj.
RawIndices(t) ==
    LET s1 == Find(t, "/", 0)
    IN  IF s1 = NPOS
        THEN LET a == Stoi(t)
             IN  [threw |-> a.threw, vi_raw |-> a.val, ni_raw |-> 0]
        ELSE LET a  == Stoi(SubstrTo(t, s1))
                 s2 == Find(t, "/", s1 + 1)
             IN  IF a.threw THEN [threw |-> TRUE, vi_raw |-> 0, ni_raw |-> 0]
                 ELSE IF s2 # NPOS /\ s2 + 1 < Size(t)
                 THEN LET vn_part == SubstrFrom(t, s2 + 1)
                          b == Stoi(vn_part)
                      IN  IF vn_part # <<>>
                          THEN [threw |-> b.threw, vi_raw |-> a.val,
                                ni_raw |-> b.val]
                          ELSE [threw |-> FALSE, vi_raw |-> a.val, ni_raw |-> 0]
                 ELSE [threw |-> FALSE, vi_raw |-> a.val, ni_raw |-> 0]

\* a parse_tok that resolves the normal index against the position count
parse_tokOneCount(t, vs, ns) ==
    LET r      == RawIndices(t)
        vcount == Len(vs) \div 3
    IN  IF r.threw THEN [threw |-> TRUE, vi |-> -1, ni |-> -1]
        ELSE [threw |-> FALSE,
              vi |-> fix_obj_index(r.vi_raw, vcount),
              ni |-> IF r.ni_raw # 0 THEN fix_obj_index(r.ni_raw, vcount)
                     ELSE -1]

\* parse_tok: (vi, ni) as 0-based indices against the tables as they are
\* now; ni = -1 when the token has no normal.
parse_tok(t, vs, ns) ==
    LET r      == RawIndices(t)
        vcount == Len(vs) \div 3
        ncount == Len(ns) \div 3
    IN  IF r.threw THEN [threw |-> TRUE, vi |-> -1, ni |-> -1]
        ELSE [threw |-> FALSE,
              vi |-> fix_obj_index(r.vi_raw, vcount),
              ni |-> IF r.ni_raw # 0 THEN fix_obj_index(r.ni_raw, ncount)
                     ELSE -1]

\* -------------------------------------------------------------------------
\* load_obj: emission of one triangle
\* -------------------------------------------------------------------------

\* What an out-of-range read of verts may yield when it does not fault: a
\* value the program does not determine.
IndeterminateFloats == {-99, 99}

\* verts[i] (0-based): the element, or, past the end, the value g
ReadVerts(vs, i, g) == IF i < Len(vs) THEN vs[i + 1] ELSE g

\* the normal of one corner: norms[no..no+2] when ni >= 0 and in bounds,
\* otherwise 0,0,0
CornerNormal(ni, ns) ==
    IF ni >= 0 /\ ni * 3 + 2 < Len(ns)
    THEN <<ns[ni * 3 + 1], ns[ni * 3 + 2], ns[ni * 3 + 3]>>
    ELSE <<0, 0, 0>>

\* a corner that pushes five scalars: nz is left out
CornerRecordNoNz(vi, ni, vs, ns, g) ==
    <<ReadVerts(vs, vi * 3, g), ReadVerts(vs, vi * 3 + 1, g),
      ReadVerts(vs, vi * 3 + 2, g)>> \o SubSeq(CornerNormal(ni, ns), 1, 2)

\* the six push_backs of one corner
CornerRecord(vi, ni, vs, ns, g) ==
    <<ReadVerts(vs, vi * 3, g), ReadVerts(vs, vi * 3 + 1, g),
      ReadVerts(vs, vi * 3 + 2, g)>> \o CornerNormal(ni, ns)

\* for (k = 0; k < 3; ++k) { ... }: from corner k on.  acc holds what the
\* line has done so far: the out vector, the position indices read and the
\* triangles completed.  A read past the end of verts is undefined: it may
\* fault (status "crashed", out as it is at that moment) or yield g.
RECURSIVE EmitTriangle(_, _, _, _, _, _, _)
EmitTriangle(acc, vis, nis, k, vs, ns, g) ==
    IF k > 3 THEN {[acc EXCEPT !.ntri = @ + 1]}
    ELSE LET vi   == vis[k]
             rd   == [acc EXCEPT !.reads = @ \cup {vi}]
             nxt  == [rd EXCEPT !.out = @ \o CornerRecord(vi, nis[k], vs, ns, g)]
         IN  IF vi * 3 + 2 < Len(vs)
             THEN EmitTriangle(nxt, vis, nis, k + 1, vs, ns, g)
             ELSE {[rd EXCEPT !.status = "crashed"]}
                  \cup EmitTriangle(nxt, vis, nis, k + 1, vs, ns, g)

\* a fan loop that stops one triangle early
FanCondShort(i, size) == i + 2 < size

\* the fan loop's condition, i + 1 < face.size()
FanCond(i, size) == i + 1 < size

\* for (i = 1; i + 1 < face.size(); ++i) { ... }: from 0-based i on
RECURSIVE FanLoop(_, _, _, _, _, _, _)
FanLoop(acc, face, i, p0, vs, ns, g) ==
    IF ~FanCond(i, Len(face)) THEN {acc}
    ELSE LET p1 == parse_tok(At(face, i), vs, ns)
             p2 == parse_tok(At(face, i + 1), vs, ns)
         IN  IF p1.threw \/ p2.threw THEN {[acc EXCEPT !.status = "threw"]}
             ELSE IF p1.vi < 0 \/ p2.vi < 0
             THEN FanLoop(acc, face, i + 1, p0, vs, ns, g)
             ELSE UNION { IF a.status = "running"
                          THEN FanLoop(a, face, i + 1, p0, vs, ns, g)
                          ELSE {a}
                          : a \in EmitTriangle(acc, <<p0.vi, p1.vi, p2.vi>>,
                                               <<p0.ni, p1.ni, p2.ni>>, 1,
                                               vs, ns, g) }

\* the `f` branch: the outcomes of one face line
FaceLine(acc, face, vs, ns, g) ==
    IF Len(face) < 3 THEN {acc}
    ELSE LET p0 == parse_tok(At(face, 0), vs, ns)
         IN  IF p0.threw THEN {[acc EXCEPT !.status = "threw"]}
             ELSE IF p0.vi < 0 THEN {acc}
             ELSE FanLoop(acc, face, 1, p0, vs, ns, g)

\* -------------------------------------------------------------------------
\* load_obj: the body of the line loop
\* -------------------------------------------------------------------------

\* a declaration that pushes each float as soon as it is read
DeclLinePushesAsRead(table, rest, i) ==
    LET x == ReadFloat(rest, i)
        y == ReadFloat(rest, x.next)
        z == ReadFloat(rest, y.next)
    IN  IF ~x.ok THEN table
        ELSE IF ~y.ok THEN table \o <<x.val>>
        ELSE IF ~z.ok THEN table \o <<x.val, y.val>>
        ELSE table \o <<x.val, y.val, z.val>>

\* v: push three floats onto the table when all three were read
DeclLine(table, rest, i) ==
    LET f == ReadFloat3(rest, i)
    IN  IF f.ok THEN table \o f.xyz ELSE table

\* a comment test that trims the marker away with the whitespace
RECURSIVE SkipSpaceAndHash(_, _)
SkipSpaceAndHash(s, i) ==
    IF i < Size(s) /\ (IsSpace(At(s, i)) \/ At(s, i) = "#")
    THEN SkipSpaceAndHash(s, i + 1) ELSE i

ContentStartTrimsHash(l) ==
    LET start == SkipSpaceAndHash(l, 0)
    IN  IF start >= Size(l) THEN NPOS ELSE start

\* The head of the loop body: NPOS when the line is skipped (empty, or #
\* first, or, after the leading whitespace, nothing or #), otherwise the
\* 0-based position `start` of its first non-whitespace character.
ContentStart(l) ==
    IF Size(l) = 0 \/ At(l, 0) = "#" THEN NPOS
    ELSE LET start == SkipSpace(l, 0)
         IN  IF start >= Size(l) \/ At(l, start) = "#" THEN NPOS ELSE start

\* One iteration of while (std::getline(file, line)) on line l, from the
\* loader state acc = [status, verts, norms, out, reads, ntri]: the set of
\* states the iteration may end in.
LoopBody(l, acc, g) ==
    IF ContentStart(l) = NPOS THEN {acc}
    ELSE LET rest == SubstrFrom(l, ContentStart(l))
             w    == ReadWord(rest, 0)
             type == w.word
         IN  IF type = <<"v">>
             THEN {[acc EXCEPT !.verts = DeclLine(@, rest, w.next)]}
             ELSE IF type = <<"v", "n">>
             THEN {[acc EXCEPT !.norms = DeclLine(@, rest, w.next)]}
             ELSE IF type = <<"f">>
             THEN FaceLine(acc, ReadWords(rest, w.next),
                           acc.verts, acc.norms, g)
             ELSE {acc}

\* -------------------------------------------------------------------------
\* The input: the lines a file may hold
\* -------------------------------------------------------------------------

DigitChar(k) == <<"0", "1", "2", "3", "4", "5", "6", "7", "8", "9">>[k + 1]

\* the k-th well-formed position line of a file: v k k k
PosLine(k) == <<"v", " ", DigitChar(k), " ", DigitChar(k), " ", DigitChar(k)>>

\* the k-th well-formed normal line of a file: vn -k 0 k
NormLine(k) == <<"v", "n", " ", "-", DigitChar(k), " ", "0", " ", DigitChar(k)>>

\* empty and whitespace-only lines
BlankLines ==
    { <<>>,
      <<" ">>,
      <<" ", "\t">> }

\* lines whose first non-whitespace character is #
CommentLines ==
    { <<"#", " ", "c">>,
      <<"#", "v", " ", "1", " ", "1", " ", "1">>,
      <<" ", "\t", "#", " ", "f", " ", "1", " ", "1", " ", "1">> }

\* lines of another type, and declarations with fewer than three floats
OtherLines ==
    { <<"v", "t", " ", "1", " ", "1">>,
      <<"v", " ", "1", " ", "2">>,
      <<"v", " ", "1", " ", "x", " ", "3">>,
      <<"v", "n", " ", "1", " ", "2">> }

\* face lines
FaceLines ==
    { <<"f", " ", "1", " ", "2", " ", "3">>,
      <<"f", " ", "1", " ", "2", " ", "3", " ", "4">>,
      <<"f", " ", "-", "3", " ", "-", "2", " ", "-", "1">>,
      <<"f", " ", "-", "4", " ", "-", "3", " ", "-", "2", " ", "-", "1">>,
      <<"f", " ", "1", "/", "1", " ", "2", "/", "2", " ", "3">>,
      <<"f", " ", "1", "/", "/", "1", " ", "2", "/", "/", "2", " ", "3">>,
      <<"f", " ", "9", "9", " ", "1", " ", "2">>,
      <<"f", " ", "a", " ", "b", " ", "c">>,
      <<"f", " ", "/", "1", " ", "2", " ", "3">>,
      <<"f", " ", "1", "/", "/", "x", " ", "2", " ", "3">>,
      <<"f", " ", "1", " ", "0", " ", "2", " ", "3">>,
      <<"f", " ", "1", " ", "2">>,
      <<"f", " ", "1", "/", "9", "/", "1", " ", "2", "/", "/", "-", "1", " ", "3", "/", "/", "9">>,
      <<"f", " ", "1", "/", "/", "0", " ", "2", "/", "/", " ", "3", "/", "/", "-", "9">>,
      <<"f", " ", "-", "9", " ", "1", " ", "2">> }

\* The lines the file may hold next.  A file's k-th well-formed v line is
\* PosLine(k) and its k-th well-formed vn line is NormLine(k), so that the
\* table entries are pairwise distinct and differ from 0,0,0.
InputLines(vs, ns, nt) ==
    BlankLines \cup CommentLines \cup OtherLines
      \cup (IF Len(vs) \div 3 < MaxVerts THEN {PosLine(Len(vs) \div 3 + 1)} ELSE {})
      \cup (IF Len(ns) \div 3 < MaxNorms THEN {NormLine(Len(ns) \div 3 + 1)} ELSE {})
      \cup (IF nt < MaxTris THEN FaceLines ELSE {})

\* -------------------------------------------------------------------------
\* The orbit camera: floats
\* -------------------------------------------------------------------------

PosInf == FloatMax + 1

NegInf == -(FloatMax + 1)

NaN == FloatMax + 2

\* a < b on floats: FALSE when either is NaN
FLess(a, b) == a # NaN /\ b # NaN /\ a < b

\* a real result as a float: beyond the finite range it is an infinity
FRound(r) == IF r > FloatMax THEN PosInf ELSE IF r < -FloatMax THEN NegInf ELSE r

\* a - b on floats
FSub(a, b) ==
    IF a = NaN \/ b = NaN THEN NaN
    ELSE IF a = PosInf THEN (IF b = PosInf THEN NaN ELSE PosInf)
    ELSE IF a = NegInf THEN (IF b = NegInf THEN NaN ELSE NegInf)
    ELSE IF b = PosInf THEN NegInf
    ELSE IF b = NegInf THEN PosInf
    ELSE FRound(a - b)

\* a * c on floats, for a coefficient 0 < c < 1 given in thousandths (the
\* default sensitivity and zoom speed): the product is no larger than a
FMulMilli(a, c) ==
    IF a \in {NaN, PosInf, NegInf} THEN a
    ELSE IF a >= 0 THEN (a * c) \div 1000
    ELSE -(((-a) * c) \div 1000)

\* glm::max(x, y): (x < y) ? y : x
glm_max(x, y) == IF FLess(x, y) THEN y ELSE x

\* glm::min(x, y): (y < x) ? y : x
glm_min(x, y) == IF FLess(y, x) THEN y ELSE x

\* glm::clamp(x, lo, hi): min(max(x, lo), hi)
glm_clamp(x, lo, hi) == glm_min(glm_max(x, lo), hi)

\* -------------------------------------------------------------------------
\* The orbit camera: orbitcamera.cpp, in thousandths
\* -------------------------------------------------------------------------

\* glm::radians(89.0f) = 1.5533430
PitchLimit == 1553

\* glm::radians(60.0f) = 1.0471976
InitFov == 1047

\* camera->distance = 5.0f
InitDistance == 5000

\* camera->nearClip = 0.1f
InitNearClip == 100

\* camera->farClip = 100.0f
InitFarClip == 100000

\* glm::max(cam->distance, 0.1f)
MinDistance == 100

\* float sensitivity = 0.005f
DefaultSensitivity == 5

\* float zoomSpeed = 0.5f
DefaultZoomSpeed == 500

\* orbitcamera_initialize: every field is set
orbitcamera_initialize(c) ==
    [target   |-> <<0, 0, 0>>,
     distance |-> InitDistance,
     yaw      |-> 0,
     pitch    |-> 0,
     fov      |-> InitFov,
     nearClip |-> InitNearClip,
     farClip  |-> InitFarClip]

\* a rotate that clamps the pitch from above only
orbitcamera_rotateUpperClampOnly(c, deltaX, deltaY, sensitivity) ==
    [c EXCEPT !.yaw   = FSub(@, FMulMilli(deltaX, sensitivity)),
              !.pitch = glm_min(FSub(@, FMulMilli(deltaY, sensitivity)),
                                PitchLimit)]

\* orbitcamera_rotate: yaw and pitch move, the pitch is clamped to +-limit
orbitcamera_rotate(c, deltaX, deltaY, sensitivity) ==
    [c EXCEPT !.yaw   = FSub(@, FMulMilli(deltaX, sensitivity)),
              !.pitch = glm_clamp(FSub(@, FMulMilli(deltaY, sensitivity)),
                                  -PitchLimit, PitchLimit)]

\* orbitcamera_zoom: the distance moves and is kept at 0.1 or more
orbitcamera_zoom(c, scrollDelta, zoomSpeed) ==
    [c EXCEPT !.distance = glm_max(FSub(@, FMulMilli(scrollDelta, zoomSpeed)),
                                   MinDistance)]

\* the OrbitCamera of a Scene before orbitcamera_initialize: its fields are
\* not initialized
UninitializedCameras ==
    { [target |-> <<x, x, x>>, distance |-> x, yaw |-> x, pitch |-> x,
       fov |-> x, nearClip |-> x, farClip |-> x]
      : x \in {NaN, NegInf, -7, 0, PosInf} }

\* the finite deltas of the model's rotate calls (pixels, in thousandths)
RotateDeltas == {-FloatMax, -100000, 0, 100000, FloatMax}

\* the finite deltas of the model's zoom calls (in thousandths)
ScrollDeltas == {-FloatMax, -100000, 100000, FloatMax}

\* -------------------------------------------------------------------------
\* The state machine
\* -------------------------------------------------------------------------

VARIABLES
    status,    \* "opening", "running", "done" (returned), "threw", "crashed"
    verts,     \* std::vector<float> verts
    norms,     \* std::vector<float> norms
    out,       \* std::vector<float> out
    line,      \* std::string line: the line read last
    posReads,  \* the 0-based position indices read from verts for `line`
    ntri,      \* the triangles pushed onto out so far
    cam,       \* Scene::orbitCamera
    camOp      \* the camera function called last: "none", "initialize",
               \* "rotate", "zoom"

vars == <<status, verts, norms, out, line, posReads, ntri, cam, camOp>>

loaderVars == <<status, verts, norms, out, line, posReads, ntri>>

Init ==
    /\ status = "opening"
    /\ verts = <<>>
    /\ norms = <<>>
    /\ out = <<>>
    /\ line = <<>>
    /\ posReads = {}
    /\ ntri = 0
    /\ cam = orbitcamera_initialize([x \in {} |-> 0])
    /\ camOp = "initialize"

\* std::ifstream file(path) opened
OpenOk ==
    /\ status = "opening"
    /\ status' = "running"
    /\ UNCHANGED <<verts, norms, out, line, posReads, ntri, cam, camOp>>

\* if (!file.is_open()) return out;
OpenFailed ==
    /\ status = "opening"
    /\ status' = "done"
    /\ UNCHANGED <<verts, norms, out, line, posReads, ntri, cam, camOp>>

\* std::getline succeeds with line l, and the loop body runs on it
GetLine ==
    /\ status = "running"
    /\ \E l \in InputLines(verts, norms, ntri), g \in IndeterminateFloats :
         \E r \in LoopBody(l, [status |-> "running", verts |-> verts,
                               norms |-> norms, out |-> out, reads |-> {},
                               ntri |-> ntri], g) :
            /\ line' = l
            /\ status' = r.status
            /\ verts' = r.verts
            /\ norms' = r.norms
            /\ out' = r.out
            /\ posReads' = r.reads
            /\ ntri' = r.ntri
    /\ UNCHANGED <<cam, camOp>>

\* std::getline fails at the end of the file: return out;
Eof ==
    /\ status = "running"
    /\ status' = "done"
    /\ UNCHANGED <<verts, norms, out, line, posReads, ntri, cam, camOp>>

Next == OpenOk \/ OpenFailed \/ GetLine \/ Eof

Spec == Init /\ [][Next]_vars

\* -------------------------------------------------------------------------
\* The camera's state machine
\* -------------------------------------------------------------------------

\* a Scene was declared: no file is open, the camera is not initialized
CamInit ==
    /\ status = "opening"
    /\ verts = <<>>
    /\ norms = <<>>
    /\ out = <<>>
    /\ line = <<>>
    /\ posReads = {}
    /\ ntri = 0
    /\ cam \in UninitializedCameras
    /\ camOp = "none"

\* create_scene: orbitcamera_initialize(&scene->orbitCamera)
CamInitialize ==
    /\ camOp = "none"
    /\ cam' = orbitcamera_initialize(cam)
    /\ camOp' = "initialize"
    /\ UNCHANGED loaderVars

\* main loop: orbitcamera_rotate(&scene.orbitCamera, dx, dy), with the
\* default sensitivity
CamRotate ==
    /\ camOp # "none"
    /\ \E dx \in RotateDeltas, dy \in RotateDeltas :
         /\ cam' = orbitcamera_rotate(cam, dx, dy, DefaultSensitivity)
         /\ FLess(cam'.yaw, MaxYaw + 1)
         /\ FLess(-(MaxYaw + 1), cam'.yaw)
    /\ camOp' = "rotate"
    /\ UNCHANGED loaderVars

\* main loop: orbitcamera_zoom(&scene.orbitCamera, d), with the default
\* zoom speed
CamZoom ==
    /\ camOp # "none"
    /\ \E d \in ScrollDeltas :
         cam' = orbitcamera_zoom(cam, d, DefaultZoomSpeed)
    /\ camOp' = "zoom"
    /\ UNCHANGED loaderVars

CamNext == CamInitialize \/ CamRotate \/ CamZoom

CamSpec == CamInit /\ [][CamNext]_vars

\* -------------------------------------------------------------------------
\* The vocabulary of the properties: the format as the specification
\* describes it, stated without the loader's operators
\* -------------------------------------------------------------------------

\* a step that read a line and ran the loop body on it
LineStep == status = "running" /\ status' # "done"

WhiteSpace == {" ", "\t"}

\* the line is empty or holds whitespace only
IsBlankLine(l) == \A i \in 1..Len(l) : l[i] \in WhiteSpace

\* the line's first non-whitespace character is the comment marker
IsCommentLine(l) ==
    \E i \in 1..Len(l) : l[i] = "#" /\ \A j \in 1..(i - 1) : l[j] \in WhiteSpace

IsFaceLine(l) == l \in FaceLines

\* the positions of the slashes of a token
SlashAt(t) == {i \in 1..Len(t) : t[i] = "/"}

Least(S) == CHOOSE i \in S : \A j \in S : i <= j

\* P of P, P/T, P/T/N, P//N
PField(t) ==
    IF SlashAt(t) = {} THEN t ELSE SubSeq(t, 1, Least(SlashAt(t)) - 1)

\* N of P/T/N and P//N; empty when the token has no such slot
NField(t) ==
    IF Cardinality(SlashAt(t)) < 2 THEN <<>>
    ELSE SubSeq(t, Least(SlashAt(t) \ {Least(SlashAt(t))}) + 1, Len(t))

\* an optionally signed decimal integer
IsIntText(f) ==
    LET body == IF f # <<>> /\ f[1] \in {"-", "+"} THEN Tail(f) ELSE f
    IN  body # <<>> /\ \A i \in 1..Len(body) : IsDigit(body[i])

IntOf(f) == ScanInt(f, 0).val

\* the corner tokens of each face line of the model's input (f, then tokens)
FaceCorners == [l \in FaceLines |-> ReadWords(l, 1)]

Corners(l) == FaceCorners[l]

FaceTokens == UNION { {FaceCorners[l][i] : i \in 1..Len(FaceCorners[l])} : l \in FaceLines }

\* What each token of the input says: wf, it follows the grammar as far as
\* the loader reads it; p, its position index; n, its normal index, 0 when
\* the slot is missing.
Token ==
    [t \in FaceTokens |->
       [wf |-> IsIntText(PField(t)) /\ (NField(t) = <<>> \/ IsIntText(NField(t))),
        p  |-> IF IsIntText(PField(t)) THEN IntOf(PField(t)) ELSE 0,
        n  |-> IF IsIntText(NField(t)) THEN IntOf(NField(t)) ELSE 0]]

WellFormed(t) == Token[t].wf

\* the signed-index convention: k > 0 is k-1, k < 0 is count + k
Resolve(k, count) == IF k > 0 THEN k - 1 ELSE count + k

InTable(i, count) == 0 <= i /\ i < count

\* the 0-based position index of a well-formed corner
PosIndex(t, vs) == Resolve(Token[t].p, Len(vs) \div 3)

\* a corner whose position index is not zero and resolves into the table
ValidPos(t, vs) ==
    /\ WellFormed(t)
    /\ Token[t].p # 0
    /\ InTable(PosIndex(t, vs), Len(vs) \div 3)

\* entry i (0-based) of a flat table of 3-float tuples
Tuple(table, i) == <<table[3 * i + 1], table[3 * i + 2], table[3 * i + 3]>>

\* the normal of a corner: the resolved entry, or 0,0,0 when the slot is
\* missing, zero or resolves out of the table
NormalOf(t, ns) ==
    IF Token[t].n = 0 THEN <<0, 0, 0>>
    ELSE IF InTable(Resolve(Token[t].n, Len(ns) \div 3), Len(ns) \div 3)
    THEN Tuple(ns, Resolve(Token[t].n, Len(ns) \div 3))
    ELSE <<0, 0, 0>>

\* the VertexRecord of a valid corner
RecordOf(t, vs, ns) == Tuple(vs, PosIndex(t, vs)) \o NormalOf(t, ns)

\* the fan of a face with a valid corner 0: the triangles (0, j, j+1), from
\* j on, in increasing j, without those that hold an invalid corner
RECURSIVE FanOf(_, _, _, _)
FanOf(cs, j, vs, ns) ==
    IF j + 1 > Len(cs) - 1 THEN <<>>
    ELSE (IF ValidPos(cs[j + 1], vs) /\ ValidPos(cs[j + 2], vs)
          THEN RecordOf(cs[1], vs, ns) \o RecordOf(cs[j + 1], vs, ns)
                 \o RecordOf(cs[j + 2], vs, ns)
          ELSE <<>>)
         \o FanOf(cs, j + 1, vs, ns)

IsPrefix(a, b) == Len(a) <= Len(b) /\ SubSeq(b, 1, Len(a)) = a

\* -------------------------------------------------------------------------
\* Properties
\* -------------------------------------------------------------------------

MalformedFaces ==
    { <<"f", " ", "a", " ", "b", " ", "c">>,
      <<"f", " ", "/", "1", " ", "2", " ", "3">>,
      <<"f", " ", "1", "/", "/", "x", " ", "2", " ", "3">> }

\* C1: load_obj never throws or aborts on a malformed face: after a face
\* line with a non-numeric or empty position field or a non-numeric normal
\* field, the loader is still running (or has returned).
C1_MalformedFaceNeverThrows ==
    line \in MalformedFaces => status \in {"running", "done"}

\* C2: every position index read from verts for the current line lies in
\* [0, number of positions appended so far).
C2_PositionReadsInRange ==
    \A i \in posReads : InTable(i, Len(verts) \div 3)

\* C3: a face of three or more well-formed corners whose corner 0 has an
\* invalid position index (zero, or resolving outside the table) is dropped
\* whole: the loader state is unchanged by it and parsing goes on.
C3_InvalidAnchorDropsFace ==
    [][ (/\ LineStep
         /\ IsFaceLine(line')
         /\ Len(Corners(line')) >= 3
         /\ \A i \in 1..Len(Corners(line')) : WellFormed(Corners(line')[i])
         /\ ~ValidPos(Corners(line')[1], verts))
        => (/\ status' = "running"
            /\ out' = out
            /\ ntri' = ntri
            /\ verts' = verts
            /\ norms' = norms) ]_vars

\* the 0-based offset in out' of record r (0-based) appended by this step
RecBase(r) == Len(out) + 6 * r

\* the position and the normal of record r appended by this step
NewPos(r) == SubSeq(out', RecBase(r) + 1, RecBase(r) + 3)

NewNormal(r) == SubSeq(out', RecBase(r) + 4, RecBase(r) + 6)

\* the corner (0-based) of a full fan that record r (0-based) belongs to:
\* triangle r \div 3 + 1 is (0, j, j+1)
FanCorner(r) == IF r % 3 = 0 THEN 0 ELSE (r \div 3) + (r % 3)

AllValid(cs, vs) == \A i \in 1..Len(cs) : ValidPos(cs[i], vs)

\* C4: a face of n >= 3 corners with valid positions appends exactly n-2
\* triangles, the j-th made of the positions of corners (0, j, j+1) in that
\* order; a face of fewer than 3 corners appends nothing.
C4_FanTriangulation ==
    [][ (LineStep /\ IsFaceLine(line'))
        => LET cs == Corners(line')
               n  == Len(cs)
           IN  /\ n < 3 => (out' = out /\ status' = "running")
               /\ (n >= 3 /\ AllValid(cs, verts))
                  => /\ status' = "running"
                     /\ ntri' = ntri + (n - 2)
                     /\ Len(out') = Len(out) + 18 * (n - 2)
                     /\ IsPrefix(out, out')
                     /\ \A r \in 0..(3 * (n - 2) - 1) :
                          NewPos(r) = Tuple(verts, PosIndex(cs[FanCorner(r) + 1], verts))
      ]_vars

\* the quad f 1 2 3 4 over positions 1..4 gave (1,2,3) then (1,3,4)
C4_Witness ==
    /\ line = <<"f", " ", "1", " ", "2", " ", "3", " ", "4">>
    /\ Len(verts) = 12
    /\ out = <<1, 1, 1, 0, 0, 0,  2, 2, 2, 0, 0, 0,  3, 3, 3, 0, 0, 0,
               1, 1, 1, 0, 0, 0,  3, 3, 3, 0, 0, 0,  4, 4, 4, 0, 0, 0>>

\* faces of plain signed indices, with the indices they spell
PlainFaces ==
    { [text |-> <<"f", " ", "1", " ", "2", " ", "3">>, ks |-> <<1, 2, 3>>],
      [text |-> <<"f", " ", "1", " ", "2", " ", "3", " ", "4">>,
       ks |-> <<1, 2, 3, 4>>],
      [text |-> <<"f", " ", "-", "3", " ", "-", "2", " ", "-", "1">>,
       ks |-> <<-3, -2, -1>>],
      [text |-> <<"f", " ", "-", "4", " ", "-", "3", " ", "-", "2", " ", "-", "1">>,
       ks |-> <<-4, -3, -2, -1>>] }

\* the fan over 0-based position indices is, all normals 0,0,0, from j on
RECURSIVE PlainFan(_, _, _)
PlainFan(is, j, vs) ==
    IF j + 1 > Len(is) - 1 THEN <<>>
    ELSE Tuple(vs, is[1]) \o <<0, 0, 0>> \o Tuple(vs, is[j + 1]) \o <<0, 0, 0>>
           \o Tuple(vs, is[j + 2]) \o <<0, 0, 0>> \o PlainFan(is, j + 1, vs)

\* C5: a negative position index k resolves to c + k, c the number of
\* positions declared before the face line: with c positions, f -c ... -1
\* appends what f 1 ... c appends (the fan over 0 .. c-1), and a line read
\* later that is no face leaves what was emitted as it is.
C5_NegativeIndexRunningCount ==
    [][ LineStep
        => LET c == Len(verts) \div 3
           IN  /\ \A f \in PlainFaces :
                    (/\ line' = f.text
                     /\ \A i \in 1..Len(f.ks) : InTable(Resolve(f.ks[i], c), c))
                    => /\ status' = "running"
                       /\ out' = out \o PlainFan([i \in 1..Len(f.ks) |->
                                                    Resolve(f.ks[i], c)], 1, verts)
               /\ ~IsFaceLine(line') => out' = out
      ]_vars

\* f -3 -2 -1 after exactly three positions gave the triangle of f 1 2 3
C5_Witness ==
    /\ line = <<"f", " ", "-", "3", " ", "-", "2", " ", "-", "1">>
    /\ Len(verts) = 9
    /\ out = <<1, 1, 1, 0, 0, 0,  2, 2, 2, 0, 0, 0,  3, 3, 3, 0, 0, 0>>

FaceSlash == <<"f", " ", "1", "/", "1", " ", "2", "/", "2", " ", "3">>

FaceSlashSlash ==
    <<"f", " ", "1", "/", "/", "1", " ", "2", "/", "/", "2", " ", "3">>

\* the three records of a triangle over positions 0,1,2 with the normals given
ThreeRecords(vs, n0, n1, n2) ==
    Tuple(vs, 0) \o n0 \o Tuple(vs, 1) \o n1 \o Tuple(vs, 2) \o n2

\* C6 as stated: f 1/1 2/2 3 after three positions and two normals gives the
\* first two records the normals NormalTable[0] and NormalTable[1] and the
\* third 0,0,0.
C6_SlashFieldIsNormal ==
    [][ (/\ LineStep
         /\ line' = FaceSlash
         /\ Len(verts) \div 3 >= 3
         /\ Len(norms) \div 3 >= 2)
        => out' = out \o ThreeRecords(verts, Tuple(norms, 0), Tuple(norms, 1),
                                      <<0, 0, 0>>) ]_vars

\* C6 amended: in f 1/1 2/2 3 the field after the single slash is the
\* texture index, so all three records carry the normal 0,0,0; it is
\* f 1//1 2//2 3 that gives the first two records NormalTable[0] and
\* NormalTable[1] and the third 0,0,0.
C6_SlashFieldIsTexture ==
    [][ (/\ LineStep
         /\ Len(verts) \div 3 >= 3
         /\ Len(norms) \div 3 >= 2)
        => /\ line' = FaceSlash
              => /\ status' = "running"
                 /\ out' = out \o ThreeRecords(verts, <<0, 0, 0>>, <<0, 0, 0>>,
                                               <<0, 0, 0>>)
           /\ line' = FaceSlashSlash
              => /\ status' = "running"
                 /\ out' = out \o ThreeRecords(verts, Tuple(norms, 0),
                                               Tuple(norms, 1), <<0, 0, 0>>)
      ]_vars

\* f 1/1 2/2 3 was read after three positions and two normals
C6_Witness ==
    /\ line = FaceSlash
    /\ Len(verts) \div 3 >= 3
    /\ norms = <<-1, 0, 1, -2, 0, 2>>
    /\ out = <<1, 1, 1, 0, 0, 0,  2, 2, 2, 0, 0, 0,  3, 3, 3, 0, 0, 0>>

C8_BlankAndCommentLinesSkipped ==
    [][ (LineStep /\ (IsBlankLine(line') \/ IsCommentLine(line')))
        => (/\ status' = "running"
            /\ verts' = verts
            /\ norms' = norms
            /\ out' = out
            /\ ntri' = ntri) ]_vars

\* a comment line was read after positions, normals and a triangle
C8_Witness ==
    /\ line = <<" ", "\t", "#", " ", "f", " ", "1", " ", "1", " ", "1">>
    /\ status = "running"
    /\ Len(verts) = 9
    /\ Len(norms) = 3
    /\ Len(out) = 18

\* C9: in a face of well-formed corners with a valid corner 0, exactly the
\* triangles (0, j, j+1) whose corners j and j+1 are valid are emitted, in
\* increasing j.
C9_InvalidCornerSkipsItsTriangles ==
    [][ (/\ LineStep
         /\ IsFaceLine(line')
         /\ Len(Corners(line')) >= 3
         /\ \A i \in 1..Len(Corners(line')) : WellFormed(Corners(line')[i])
         /\ ValidPos(Corners(line')[1], verts))
        => (/\ status' = "running"
            /\ out' = out \o FanOf(Corners(line'), 1, verts, norms)) ]_vars

\* C10: every record of a face of valid corners carries the normal its
\* token resolves to against the normal table's own count (0,0,0 when the
\* slot is missing, zero or out of the table) after the corner's position;
\* the T field plays no part.
C10_NormalResolution ==
    [][ (LineStep /\ IsFaceLine(line'))
        => LET cs == Corners(line')
           IN  (Len(cs) >= 3 /\ AllValid(cs, verts))
               => \A r \in 0..(3 * (Len(cs) - 2) - 1) :
                    /\ RecBase(r) + 6 <= Len(out')
                    /\ NewNormal(r) = NormalOf(cs[FanCorner(r) + 1], norms)
                    /\ NewPos(r) = Tuple(verts, PosIndex(cs[FanCorner(r) + 1], verts))
      ]_vars

\* f 1/9/1 2//-1 3//9 after three positions and two normals: normal 1,
\* normal -1 (the last of two), and 9 out of the table
C10_Witness ==
    /\ line = <<"f", " ", "1", "/", "9", "/", "1", " ", "2", "/", "/", "-", "1",
                " ", "3", "/", "/", "9">>
    /\ Len(verts) = 9
    /\ out = <<1, 1, 1, -1, 0, 1,  2, 2, 2, -2, 0, 2,  3, 3, 3, 0, 0, 0>>

\* declarations with fewer than three readable floats
ShortDecls ==
    { <<"v", " ", "1", " ", "2">>,
      <<"v", " ", "1", " ", "x", " ", "3">>,
      <<"v", "n", " ", "1", " ", "2">> }

\* the first whitespace-delimited token of a line
FirstToken(l) == ReadWord(l, 0).word

\* the loader but for the line read is as it was
LoaderUnchanged ==
    /\ status' = "running"
    /\ verts' = verts
    /\ norms' = norms
    /\ out' = out
    /\ ntri' = ntri

\* C11: a v line (the file's k-th is v k k k) appends exactly its tuple to
\* the position table and changes nothing else, a vn line (vn -k 0 k)
\* appends exactly its tuple to the normal table and changes nothing else, a
\* v or vn line with fewer than three readable floats changes nothing, a
\* line whose first token is none of v, vn, f changes no table and not out;
\* both tables hold whole tuples after every line.
C11_DeclarationFrame ==
    [][ LineStep
        => /\ \A k \in 1..(Len(verts) \div 3 + 1) :
                line' = PosLine(k)
                => /\ verts' = verts \o <<k, k, k>>
                   /\ status' = "running" /\ norms' = norms
                   /\ out' = out /\ ntri' = ntri
           /\ \A k \in 1..(Len(norms) \div 3 + 1) :
                line' = NormLine(k)
                => /\ norms' = norms \o <<-k, 0, k>>
                   /\ status' = "running" /\ verts' = verts
                   /\ out' = out /\ ntri' = ntri
           /\ line' \in ShortDecls => LoaderUnchanged
           /\ (/\ ~IsBlankLine(line')
               /\ FirstToken(line') \notin {<<"v">>, <<"v", "n">>, <<"f">>})
              => LoaderUnchanged
           /\ Len(verts') % 3 = 0
           /\ Len(norms') % 3 = 0
      ]_vars

\* a v line with two floats was read after a position and a normal
C11_Witness ==
    /\ line = <<"v", " ", "1", " ", "2">>
    /\ status = "running"
    /\ verts = <<1, 1, 1>>
    /\ norms = <<-1, 0, 1>>

\* a <= b on floats: FALSE when either is NaN
FLessEq(a, b) == a # NaN /\ b # NaN /\ a <= b

\* C12: after orbitcamera_initialize and any rotate and zoom calls with
\* finite deltas the pitch lies in [-89 degrees, +89 degrees] and the
\* distance is at least 0.1; rotate leaves distance, target, fov and the
\* clip planes as they are, zoom leaves yaw, pitch and target as they are.
C12_CameraBounds ==
    [][ /\ camOp' # "none"
           => /\ FLessEq(-PitchLimit, cam'.pitch)
              /\ FLessEq(cam'.pitch, PitchLimit)
              /\ FLessEq(MinDistance, cam'.distance)
        /\ camOp' = "rotate"
           => /\ cam'.distance = cam.distance
              /\ cam'.target = cam.target
              /\ cam'.fov = cam.fov
              /\ cam'.nearClip = cam.nearClip
              /\ cam'.farClip = cam.farClip
        /\ camOp' = "zoom"
           => /\ cam'.yaw = cam.yaw
              /\ cam'.pitch = cam.pitch
              /\ cam'.target = cam.target
      ]_vars

\* a zoom after rotates that drove the pitch onto its lower limit, with the
\* distance on its floor
C12_Witness ==
    /\ camOp = "zoom"
    /\ cam.pitch = -PitchLimit
    /\ cam.distance = MinDistance
    /\ cam.yaw # 0

=============================================================================
